---- MODULE Spec2Model ----
(***************************************************************************)
(* Model of the MergeWiki diff core: the unified-diff reader               *)
(* (DiffParser._parse_diff_lines), the hunk correlator                     *)
(* (DiffParser._find_matching_hunk), the conflict-block builder            *)
(* (DiffParser.build_diff_blocks, parse_diff, parse) and the analysis      *)
(* loop that consumes the block list (CodeDiffAnalyzer.analyze_blocks).    *)
(*                                                                         *)
(* A diff text is a sequence of lines.  A line is a record that carries    *)
(* what the reader's three tests read from it: whether it starts with      *)
(* "diff --git" (k = "git"), whether it starts with "+++ " (k = "file",    *)
(* path = the rest of the line, stripped), whether HUNK_PATTERN matches    *)
(* it (k = "hunk", the four numbers of the header; -1 = group absent), or  *)
(* none of these (k = "text", with its first character and the rest).      *)
(* "".join(lines) is modelled by the sequence of the joined lines.         *)
(***************************************************************************)
EXTENDS Integers, Sequences, FiniteSets, TLC

VARIABLES
    pc,                 \* position of the program
    run,                \* number of the parse-then-build run in progress
    input,              \* the diff text: the lines handed to the reader
    pos,                \* _parse_diff_lines: number of lines consumed by the loop
    file_hunks,         \* _parse_diff_lines: result dict, in insertion order
    current_file,       \* _parse_diff_lines: local
    current_hunk_lines, \* _parse_diff_lines: local
    hunk_start,         \* _parse_diff_lines: local
    hunk_end,           \* _parse_diff_lines: local
    diffA,              \* build_diff_blocks: argument
    diffB,              \* build_diff_blocks: argument
    diffAB,             \* build_diff_blocks: argument
    file_reports,       \* build_diff_blocks: local, the result
    blocks,             \* build_diff_blocks: local, blocks of the file in progress
    block_id,           \* build_diff_blocks: local counter
    fi,                 \* build_diff_blocks: index of the file in progress
    hi,                 \* build_diff_blocks: index of the next hunk of that file
    results,            \* block list returned by each finished run
    hunks,              \* _find_matching_hunk: argument
    target,             \* _find_matching_hunk: argument
    found,              \* _find_matching_hunk: return value
    diff_blocks,        \* analyze_blocks: argument (the blocks are mutated in place)
    ai,                 \* analyze_blocks: loop counter i
    analyzed_blocks,    \* analyze_blocks: local
    batch_blocks,       \* analyze_blocks: local
    part,               \* analyze_blocks: local
    parts,              \* the part files written so far, in order
    calls,              \* the model calls made so far, in order
    outcomes,           \* what the calls of each analysed block returned or raised
    report,             \* analyze_blocks: the "res" list of the JSON report
    sections,           \* the per-file sections of a diff text
    permuted,           \* the same sections in another order
    parsed              \* the reader's results for the two orders

readerVars == <<input, pos, file_hunks, current_file, current_hunk_lines, hunk_start, hunk_end>>
buildVars == <<diffA, diffB, diffAB, file_reports, blocks, block_id, fi, hi>>
matchVars == <<hunks, target, found>>
analyzeVars == <<diff_blocks, ai, analyzed_blocks, batch_blocks, part, parts, calls,
                 outcomes, report>>
permuteVars == <<sections, permuted, parsed>>
vars == <<pc, run, readerVars, buildVars, results, matchVars, analyzeVars, permuteVars>>

-----------------------------------------------------------------------------
(* Bounds *)
MaxLines == 5        \* lines of a diff text in the reader specification
MaxDiffLines == 5    \* lines of the diff text in the single-diff pipeline
MaxABLines == 5      \* lines of the A<->B diff text in MR mode
MaxSideLines == 3    \* lines of the BASE->A and BASE->B diff texts in MR mode
MaxCandidates == 3   \* hunks in the candidate sequence of the correlator
MaxLineNo == 3       \* line numbers of the correlator's inputs

-----------------------------------------------------------------------------
(* Python values *)
None == -1           \* None in an int-typed place (line numbers are >= 0)
NoFile == "<None>"   \* None in current_file
NoLen == -1          \* match.group(4) is None: the header gives no length

Truthy(s) == s # NoFile /\ s # ""

Line(k, path, os, ol, ns, nl, mark, text) ==
    [k |-> k, path |-> path, ostart |-> os, olen |-> ol,
     nstart |-> ns, nlen |-> nl, mark |-> mark, text |-> text]

GitLine == Line("git", "", 0, NoLen, 0, NoLen, "d", "iff --git")
FileLine(p) == Line("file", p, 0, NoLen, 0, NoLen, "+", "++ ")
HunkLine(os, ol, ns, nl) == Line("hunk", "", os, ol, ns, nl, "@", "@")
TextLine(m, t) == Line("text", "", 0, NoLen, 0, NoLen, m, t)
NoneLine == Line("None", "", 0, NoLen, 0, NoLen, "", "")

NoneContent == <<NoneLine>>   \* None in a content field
EmptyContent == <<>>          \* '' in a content field

DiffHunk(f, s, e, c) == [file_path |-> f, start_line |-> s, end_line |-> e, content |-> c]
Location(s, e) == [start_line |-> s, end_line |-> e]

-----------------------------------------------------------------------------
SeqsUpTo(S, n) == UNION {[1..k -> S] : k \in 0..n}

(* dict[str, list], kept as the sequence of its items in insertion order *)
Keys(d) == {d[i].file : i \in DOMAIN d}

DictGet(d, f) ==
    IF f \in Keys(d) THEN d[CHOOSE i \in DOMAIN d : d[i].file = f].hunks ELSE <<>>

SetDefaultAppend(d, f, h) ==
    IF f \in Keys(d)
    THEN [i \in DOMAIN d |-> IF d[i].file = f
                             THEN [d[i] EXCEPT !.hunks = Append(@, h)]
                             ELSE d[i]]
    ELSE Append(d, [file |-> f, hunks |-> <<h>>])

-----------------------------------------------------------------------------
(* DiffParser._parse_diff_lines *)
ReaderLocals(fh, cf, chl, hs, he) ==
    [file_hunks |-> fh, current_file |-> cf, current_hunk_lines |-> chl,
     hunk_start |-> hs, hunk_end |-> he]

ReaderStart == ReaderLocals(<<>>, NoFile, <<>>, None, None)

FlushHunk(st) ==
    IF Truthy(st.current_file) /\ st.current_hunk_lines # <<>>
    THEN SetDefaultAppend(st.file_hunks, st.current_file,
             DiffHunk(st.current_file, st.hunk_start, st.hunk_end,
                      st.current_hunk_lines))
    ELSE st.file_hunks

\* mutant: a declared length of 0 is treated like an omitted length
HunkEndZeroAsOmitted(start, len) == start + (IF len # NoLen /\ len # 0 THEN len ELSE 1)

HunkEnd(start, len) == start + (IF len # NoLen THEN len ELSE 1)

\* mutant: the "+++ " line registers its file in the result dict
ParseLineRegisterFile(st, line) ==
    IF line.k = "git"
    THEN [st EXCEPT !.file_hunks = FlushHunk(st),
                    !.current_file = NoFile,
                    !.current_hunk_lines = <<>>]
    ELSE IF line.k = "file"
    THEN [st EXCEPT !.current_file = line.path,
                    !.file_hunks = IF Truthy(line.path) /\ line.path \notin Keys(@)
                                   THEN Append(@, [file |-> line.path, hunks |-> <<>>])
                                   ELSE @]
    ELSE IF line.k = "hunk"
    THEN [st EXCEPT !.file_hunks = FlushHunk(st),
                    !.hunk_start = line.nstart,
                    !.hunk_end = HunkEnd(line.nstart, line.nlen),
                    !.current_hunk_lines = <<line>>]
    ELSE IF Truthy(st.current_file)
    THEN [st EXCEPT !.current_hunk_lines = Append(@, line)]
    ELSE st

ParseLine(st, line) ==
    IF line.k = "git"
    THEN [st EXCEPT !.file_hunks = FlushHunk(st),
                    !.current_file = NoFile,
                    !.current_hunk_lines = <<>>]
    ELSE IF line.k = "file"
    THEN [st EXCEPT !.current_file = line.path]
    ELSE IF line.k = "hunk"
    THEN [st EXCEPT !.file_hunks = FlushHunk(st),
                    !.hunk_start = line.nstart,
                    !.hunk_end = HunkEnd(line.nstart, line.nlen),
                    !.current_hunk_lines = <<line>>]
    ELSE IF Truthy(st.current_file)
    THEN [st EXCEPT !.current_hunk_lines = Append(@, line)]
    ELSE st

RECURSIVE ParseLoop(_, _, _)
ParseLoop(st, lines, i) ==
    IF i > Len(lines) THEN st ELSE ParseLoop(ParseLine(st, lines[i]), lines, i + 1)

ParseDiffLines(lines) == FlushHunk(ParseLoop(ReaderStart, lines, 1))

-----------------------------------------------------------------------------
(* DiffParser._find_matching_hunk.  Comparing None with an int raises       *)
(* TypeError; `and` evaluates its second operand only when the first holds. *)
NoMatch == DiffHunk(NoFile, None, None, NoneContent)         \* return None
TypeError == DiffHunk("<TypeError>", None, None, NoneContent) \* exception raised

\* mutant: half-open ranges, a shared boundary line does not count
OverlapsExclusive(h, t) == h.start_line < t.end_line /\ t.start_line < h.end_line

Overlaps(h, t) == h.start_line <= t.end_line /\ t.start_line <= h.end_line

CompareRaises(h, t) ==
    \/ h.start_line = None \/ t.end_line = None
    \/ /\ h.start_line <= t.end_line
       /\ (t.start_line = None \/ h.end_line = None)

\* mutant: the loop does not stop at the first overlapping hunk
RECURSIVE FindFromLast(_, _, _)
FindFromLast(hs, t, i) ==
    IF i > Len(hs) THEN NoMatch
    ELSE IF CompareRaises(hs[i], t) THEN TypeError
    ELSE LET rest == FindFromLast(hs, t, i + 1)
         IN  IF rest # NoMatch THEN rest
             ELSE IF Overlaps(hs[i], t) THEN hs[i] ELSE NoMatch

RECURSIVE FindFrom(_, _, _)
FindFrom(hs, t, i) ==
    IF i > Len(hs) THEN NoMatch
    ELSE IF CompareRaises(hs[i], t) THEN TypeError
    ELSE IF Overlaps(hs[i], t) THEN hs[i]
    ELSE FindFrom(hs, t, i + 1)

FindMatchingHunk(hs, t) == FindFrom(hs, t, 1)

-----------------------------------------------------------------------------
(* models.DiffBlock as build_diff_blocks constructs it; the fields it does  *)
(* not pass keep the dataclass default None ("" stands for None in a text   *)
(* result field), modification_type is no dataclass field.                  *)
Unset == "<None>"           \* None in a text field
UnsetWords == <<"<None>">>  \* None in resolution_suggestion (a text is its words)
UnsetCode == <<"<None>">>   \* None in mixed_code (a code text is its lines)

\* mutant: the B side is filled from the A match
DiffBlockCopiedSide(id, file_path, hAB, matchA, matchB) ==
    [id |-> id,
     file_path_branchA |-> file_path,
     file_path_branchB |-> file_path,
     location_branchA |-> IF matchA # NoMatch
                          THEN Location(matchA.start_line, matchA.end_line)
                          ELSE Location(0, 0),
     location_branchB |-> IF matchA # NoMatch
                          THEN Location(matchA.start_line, matchA.end_line)
                          ELSE Location(0, 0),
     branchA_content |-> IF matchA # NoMatch THEN matchA.content ELSE NoneContent,
     branchB_content |-> IF matchB # NoMatch THEN matchB.content ELSE NoneContent,
     diff_ab_content |-> hAB.content,
     content |-> hAB.content,
     diffA_raw |-> IF matchA # NoMatch THEN matchA.content ELSE EmptyContent,
     diffB_raw |-> IF matchB # NoMatch THEN matchB.content ELSE EmptyContent,
     branchA_reason |-> Unset,
     branchB_reason |-> Unset,
     branchA_influence |-> Unset,
     branchB_influence |-> Unset,
     modification_type |-> Unset,
     resolution_suggestion |-> UnsetWords,
     resolution_suggestion_reason |-> Unset,
     mixed_code |-> UnsetCode]

DiffBlock(id, file_path, hAB, matchA, matchB) ==
    [id |-> id,
     file_path_branchA |-> file_path,
     file_path_branchB |-> file_path,
     location_branchA |-> IF matchA # NoMatch
                          THEN Location(matchA.start_line, matchA.end_line)
                          ELSE Location(0, 0),
     location_branchB |-> IF matchB # NoMatch
                          THEN Location(matchB.start_line, matchB.end_line)
                          ELSE Location(0, 0),
     branchA_content |-> IF matchA # NoMatch THEN matchA.content ELSE NoneContent,
     branchB_content |-> IF matchB # NoMatch THEN matchB.content ELSE NoneContent,
     diff_ab_content |-> hAB.content,
     content |-> hAB.content,
     diffA_raw |-> IF matchA # NoMatch THEN matchA.content ELSE EmptyContent,
     diffB_raw |-> IF matchB # NoMatch THEN matchB.content ELSE EmptyContent,
     branchA_reason |-> Unset,
     branchB_reason |-> Unset,
     branchA_influence |-> Unset,
     branchB_influence |-> Unset,
     modification_type |-> Unset,
     resolution_suggestion |-> UnsetWords,
     resolution_suggestion_reason |-> Unset,
     mixed_code |-> UnsetCode]

FileReport(file_path, bs) == [file_path |-> file_path, diff_blocks |-> bs]

RECURSIVE Flatten(_)
Flatten(frs) ==
    IF frs = <<>> THEN <<>> ELSE Head(frs).diff_blocks \o Flatten(Tail(frs))

-----------------------------------------------------------------------------
(* The reader, one loop iteration per step *)
Locals == ReaderLocals(file_hunks, current_file, current_hunk_lines, hunk_start, hunk_end)

SetLocals(st) ==
    /\ file_hunks' = st.file_hunks
    /\ current_file' = st.current_file
    /\ current_hunk_lines' = st.current_hunk_lines
    /\ hunk_start' = st.hunk_start
    /\ hunk_end' = st.hunk_end

ReaderPaths == {"", "a.py", "b.py"}
ReaderHunkLines == {HunkLine(7, 1, 1, NoLen), HunkLine(8, NoLen, 3, 0), HunkLine(9, 4, 2, 2)}
ReaderTextLines == {TextLine(" ", "same"), TextLine("+", "new")}
ReaderLines == {GitLine} \cup {FileLine(p) : p \in ReaderPaths}
                 \cup ReaderHunkLines \cup ReaderTextLines

DiffLines == {GitLine, FileLine("a.py"), FileLine("b.py"),
              HunkLine(7, 1, 1, NoLen), HunkLine(9, 4, 2, 2), TextLine("+", "new")}

\* for line in lines, the text being supplied line by line (first run)
ReadStep(lineSet, max) ==
    /\ pc = "read" /\ run = 1
    /\ Len(input) < max
    /\ \E line \in lineSet :
          /\ input' = Append(input, line)
          /\ SetLocals(ParseLine(Locals, line))
    /\ pos' = pos + 1
    /\ UNCHANGED <<permuteVars, pc, run, buildVars, results, matchVars, analyzeVars>>

\* for line in lines, over the same text again (second run)
ReplayStep ==
    /\ pc = "read" /\ run = 2
    /\ pos < Len(input)
    /\ SetLocals(ParseLine(Locals, input[pos + 1]))
    /\ pos' = pos + 1
    /\ UNCHANGED <<permuteVars, pc, run, input, buildVars, results, matchVars, analyzeVars>>

\* end of the loop: the last flush and the return
ReadReturn ==
    /\ pc = "read"
    /\ pos = Len(input)
    /\ file_hunks' = FlushHunk(Locals)
    /\ pc' = "parsed"
    /\ UNCHANGED <<permuteVars, run, input, pos, current_file, current_hunk_lines, hunk_start,
                   hunk_end, buildVars, results, matchVars, analyzeVars>>

-----------------------------------------------------------------------------
(* DiffParser.build_diff_blocks, one inner-loop iteration per step *)
\* mutant: the files are visited in the order of their paths
BuildStartSorted(a, b, ab) ==
    /\ diffA' = a /\ diffB' = b
    /\ diffAB' = SelectSeq(ab, LAMBDA e : e.file = "a.py")
                   \o SelectSeq(ab, LAMBDA e : e.file # "a.py")
    /\ file_reports' = <<>>
    /\ block_id' = 1
    /\ blocks' = <<>>
    /\ fi' = 1 /\ hi' = 1
    /\ pc' = "build"

\* mutant: the counter is state that survives the call
BuildStartKeepCounter(a, b, ab) ==
    /\ diffA' = a /\ diffB' = b /\ diffAB' = ab
    /\ file_reports' = <<>>
    /\ block_id' = IF block_id = 0 THEN 1 ELSE block_id
    /\ blocks' = <<>>
    /\ fi' = 1 /\ hi' = 1
    /\ pc' = "build"

BuildStart(a, b, ab) ==
    /\ diffA' = a /\ diffB' = b /\ diffAB' = ab
    /\ file_reports' = <<>>
    /\ block_id' = 1
    /\ blocks' = <<>>
    /\ fi' = 1 /\ hi' = 1
    /\ pc' = "build"

\* mutant: a hunk with no correlated A or B hunk yields no block
BuildBlockSkipUnmatched ==
    /\ pc = "build"
    /\ fi <= Len(diffAB)
    /\ hi <= Len(diffAB[fi].hunks)
    /\ LET file_path == diffAB[fi].file
           hAB == diffAB[fi].hunks[hi]
           matchA == FindMatchingHunk(DictGet(diffA, file_path), hAB)
           matchB == FindMatchingHunk(DictGet(diffB, file_path), hAB)
       IN  IF matchA = TypeError \/ matchB = TypeError
           THEN /\ pc' = "raised"
                /\ UNCHANGED <<blocks, block_id, hi>>
           ELSE IF matchA = NoMatch /\ matchB = NoMatch /\ diffA # <<>>
           THEN /\ hi' = hi + 1
                /\ UNCHANGED <<pc, blocks, block_id>>
           ELSE /\ blocks' = Append(blocks, DiffBlock(block_id, file_path, hAB, matchA, matchB))
                /\ block_id' = block_id + 1
                /\ hi' = hi + 1
                /\ pc' = pc
    /\ UNCHANGED <<permuteVars, run, readerVars, diffA, diffB, diffAB, file_reports, fi,
                   results, matchVars, analyzeVars>>

BuildBlock ==
    /\ pc = "build"
    /\ fi <= Len(diffAB)
    /\ hi <= Len(diffAB[fi].hunks)
    /\ LET file_path == diffAB[fi].file
           hAB == diffAB[fi].hunks[hi]
           matchA == FindMatchingHunk(DictGet(diffA, file_path), hAB)
           matchB == FindMatchingHunk(DictGet(diffB, file_path), hAB)
       IN  IF matchA = TypeError \/ matchB = TypeError
           THEN /\ pc' = "raised"
                /\ UNCHANGED <<blocks, block_id, hi>>
           ELSE /\ blocks' = Append(blocks, DiffBlock(block_id, file_path, hAB, matchA, matchB))
                /\ block_id' = block_id + 1
                /\ hi' = hi + 1
                /\ pc' = pc
    /\ UNCHANGED <<permuteVars, run, readerVars, diffA, diffB, diffAB, file_reports, fi,
                   results, matchVars, analyzeVars>>

\* mutant: the identifier restarts with every file
BuildFileReportResetId ==
    /\ pc = "build"
    /\ fi <= Len(diffAB)
    /\ hi > Len(diffAB[fi].hunks)
    /\ file_reports' = Append(file_reports, FileReport(diffAB[fi].file, blocks))
    /\ blocks' = <<>>
    /\ block_id' = 1
    /\ fi' = fi + 1 /\ hi' = 1
    /\ UNCHANGED <<permuteVars, pc, run, readerVars, diffA, diffB, diffAB,
                   results, matchVars, analyzeVars>>

BuildFileReport ==
    /\ pc = "build"
    /\ fi <= Len(diffAB)
    /\ hi > Len(diffAB[fi].hunks)
    /\ file_reports' = Append(file_reports, FileReport(diffAB[fi].file, blocks))
    /\ blocks' = <<>>
    /\ fi' = fi + 1 /\ hi' = 1
    /\ UNCHANGED <<permuteVars, pc, run, readerVars, diffA, diffB, diffAB, block_id,
                   results, matchVars, analyzeVars>>

BuildReturn ==
    /\ pc = "build"
    /\ fi > Len(diffAB)
    /\ pc' = "built"
    /\ UNCHANGED <<permuteVars, run, readerVars, buildVars, results, matchVars, analyzeVars>>

-----------------------------------------------------------------------------
(* DiffParser.parse_diff (single-diff mode), called twice on one DiffParser *)
ParseDiffBuild ==
    /\ pc = "parsed"
    /\ BuildStart(<<>>, <<>>, file_hunks)
    /\ UNCHANGED <<permuteVars, run, readerVars, results, matchVars, analyzeVars>>

ParseDiffReturn ==
    /\ pc = "built"
    /\ results' = Append(results, Flatten(file_reports))
    /\ pc' = "returned"
    /\ UNCHANGED <<permuteVars, run, readerVars, buildVars, matchVars, analyzeVars>>

ParseDiffAgain ==
    /\ pc = "returned" /\ run = 1
    /\ run' = 2
    /\ pc' = "read"
    /\ pos' = 0
    /\ SetLocals(ReaderStart)
    /\ UNCHANGED <<permuteVars, input, buildVars, results, matchVars, analyzeVars>>

-----------------------------------------------------------------------------
(* LLMAnalyzer.  A model response is what _parse_llm_response reads from   *)
(* it: the text between each pair of markers ("" when the pair is absent)  *)
(* and, for the suggestion, the words before the first full-width colon    *)
(* and the text after it.  A suggestion is the sequence of its words; the  *)
(* keyword tests of analyze_diff_block and _generate_mixed_code are         *)
(* substring tests on it.                                                  *)
KeepA == "keep branchA"        \* the keyword tested at analyzer.py:66
KeepB == "keep branchB"        \* the keyword tested at analyzer.py:70
Code == "code"                 \* the word that completes the keywords of 348, 351
Fusion == "branchA/branchB fusion"   \* the keyword tested at analyzer.py:354
Manual == "manual"             \* any other word
AnalysisFailed == "analysis failed"          \* analyzer.py:87
ManualReview == <<"analyse this difference by hand">>   \* analyzer.py:88
UnknownType == "unknown modification type"   \* analyzer.py:48
NoSuggestion == <<"suggestion unavailable">>  \* analyzer.py:58

Contains(words, w) == \E i \in DOMAIN words : words[i] = w
ContainsPair(words, w1, w2) ==
    \E i \in DOMAIN words : i < Len(words) /\ words[i] = w1 /\ words[i + 1] = w2

Sections == {"MODIFICATION_TYPE", "MODIFICATION_CONTENT", "MODIFICATION_REASON",
             "MODIFICATION_INFLUENCE", "INTRUSIVE_CONTENT", "INTRUSIVE_REASON",
             "INTRUSIVE_INFLUENCE"}

\* a str held in a content field
LLMText(t) == IF t = "" THEN EmptyContent
              ELSE <<Line("llm", "", 0, NoLen, 0, NoLen, "", t)>>

\* completion.choices[0].message.content of the analysis call: the seven
\* narrative sections, the suggestion section (head, the full-width colon,
\* tail) and the fused code text the response embeds besides them (none: <<>>)
RaiseResponse == [kind |-> "raise", sections |-> [m \in Sections |-> ""],
                  head |-> <<>>, colon |-> FALSE, tail |-> "", mixed_code |-> <<>>]
NoneResponse == [kind |-> "none", sections |-> [m \in Sections |-> ""],
                 head |-> <<>>, colon |-> FALSE, tail |-> "", mixed_code |-> <<>>]
TextResponse(filled, head, colon, tail) ==
    [kind |-> "text", sections |-> [m \in Sections |-> IF m \in filled THEN m ELSE ""],
     head |-> head, colon |-> colon, tail |-> tail, mixed_code |-> <<>>]
\* a response that embeds a fused code text
EmbeddingResponse(head, code) ==
    [TextResponse(Sections, head, FALSE, "") EXCEPT !.mixed_code = code]

\* _parse_llm_response: re.search on None raises inside the try, the result
\* stays the empty dict; the result has the seven narrative keys and the two
\* suggestion keys and no other key, whatever else the response holds
ParseLLMResponse(response) ==
    IF response.kind = "none"
    THEN [present |-> FALSE, sections |-> response.sections,
          resolution_suggestion |-> <<>>, resolution_suggestion_reason |-> ""]
    ELSE [present |-> TRUE, sections |-> response.sections,
          resolution_suggestion |-> response.head,
          resolution_suggestion_reason |-> IF response.colon THEN response.tail ELSE ""]

\* "\n".join(raw_lines): no line and one empty line both give ''
JoinLines(ls) == IF ls = <<"">> THEN <<>> ELSE ls

StartsWithAtAt(line) == line.mark = "@" /\ line.text \in {"@", "@ garbage"}

\* mutant: side A keeps the added lines and side B the removed ones
KeptBySwapped(tgt) == IF tgt = "A" THEN {"+", " "} ELSE {"-", " "}

KeptBy(tgt) == IF tgt = "A" THEN {"-", " "} ELSE {"+", " "}

RECURSIVE RawLines(_, _)
RawLines(content, tgt) ==
    IF content = <<>> THEN <<>>
    ELSE LET line == Head(content)
             rest == RawLines(Tail(content), tgt)
         IN  IF line.mark = "" /\ line.text = "" THEN rest
             ELSE IF StartsWithAtAt(line) THEN rest
             ELSE IF line.mark \in KeptBy(tgt) THEN <<line.text>> \o rest
             ELSE rest

\* _get_original_code_of_branch
GetOriginalCodeOfBranch(diff_block, tgt) ==
    IF diff_block.content = EmptyContent THEN <<>>
    ELSE JoinLines(RawLines(diff_block.content, tgt))

\* extract_raw_code_from_diff, the helper inside _generate_mixed_code
ExtractRawCodeFromDiff(diff_text, tgt) ==
    IF diff_text = EmptyContent THEN <<>>
    ELSE JoinLines(RawLines(diff_text, tgt))

\* not text.strip()
Blank(text) == \A i \in DOMAIN text : text[i] \in {"", " "}

StyleTarget(suggestion) ==
    IF ContainsPair(suggestion, KeepA, Code) THEN "A"
    ELSE IF ContainsPair(suggestion, KeepB, Code) THEN "B"
    ELSE IF Contains(suggestion, Fusion) THEN "A"
    ELSE "B"

ReferenceCode(diff_block) ==
    LET tb == StyleTarget(diff_block.resolution_suggestion)
        first == ExtractRawCodeFromDiff(diff_block.content, tb)
    IN  IF Blank(first)
        THEN ExtractRawCodeFromDiff(diff_block.content, IF tb = "B" THEN "A" ELSE "B")
        ELSE first

\* StyleDetector.detect returns no "base_indent_len" for a reference without
\* a non-blank line, and generate_style_prompt then raises KeyError before
\* the call is made
FusionCallMade(diff_block) == ~ Blank(ReferenceCode(diff_block))

\* completion of the fusion call: raises, or a text with or without the
\* MIXED_CODE markers
FusionResponses == {[kind |-> "raise", code |-> <<>>],
                    [kind |-> "text", code |-> <<>>],
                    [kind |-> "text", code |-> <<"fused">>]}

\* _generate_mixed_code
GenerateMixedCode(diff_block, fusion) ==
    IF ~ FusionCallMade(diff_block) THEN <<>>
    ELSE IF fusion.kind = "raise" THEN <<>>
    ELSE fusion.code

\* analysis_result.get('mixed_code', '').strip()
MixedCodeFromAnalysis(r) ==
    IF r.present /\ "mixed_code" \in DOMAIN r
    THEN (IF Blank(r.mixed_code) THEN <<>> ELSE r.mixed_code)
    ELSE <<>>

\* mixed_code_from_analysis.lower() == "mixed_code"
IsFieldNameEcho(text) == text \in {<<"mixed_code">>, <<"MIXED_CODE">>, <<"Mixed_Code">>}

\* the test of analyzer.py:79
NeedsGeneration(r) ==
    MixedCodeFromAnalysis(r) = <<>> \/ IsFieldNameEcho(MixedCodeFromAnalysis(r))

\* analyzer.py:77-82, the default path
DefaultPathCode(r, diff_block, fusion) ==
    IF NeedsGeneration(r) THEN GenerateMixedCode(diff_block, fusion)
    ELSE MixedCodeFromAnalysis(r)

TakesFusionPath(response) ==
    /\ response.kind # "raise"
    /\ LET suggestion == IF response.kind = "none" THEN NoSuggestion ELSE response.head
       IN  ~ Contains(suggestion, KeepA) /\ ~ Contains(suggestion, KeepB)

\* mutant: the keep-branch-B test is made before the keep-branch-A test
AnalyzeDiffBlockKeepBFirst(diff_block, response, fusion) ==
    IF response.kind = "raise"
    THEN [diff_block EXCEPT !.modification_type = AnalysisFailed,
                            !.resolution_suggestion = ManualReview,
                            !.resolution_suggestion_reason = ""]
    ELSE LET r == ParseLLMResponse(response)
             get(m, default) == IF r.present THEN r.sections[m] ELSE default
             suggestion == IF r.present THEN r.resolution_suggestion ELSE NoSuggestion
             analysed ==
                 [diff_block EXCEPT
                    !.modification_type = get("MODIFICATION_TYPE", UnknownType),
                    !.branchA_content = LLMText(get("MODIFICATION_CONTENT", "")),
                    !.branchA_reason = get("MODIFICATION_REASON", ""),
                    !.branchA_influence = get("MODIFICATION_INFLUENCE", ""),
                    !.branchB_content = LLMText(get("INTRUSIVE_CONTENT", "")),
                    !.branchB_reason = get("INTRUSIVE_REASON", ""),
                    !.branchB_influence = get("INTRUSIVE_INFLUENCE", ""),
                    !.resolution_suggestion = suggestion,
                    !.resolution_suggestion_reason =
                        IF r.present THEN r.resolution_suggestion_reason ELSE ""]
         IN  IF Contains(suggestion, KeepB)
             THEN [analysed EXCEPT !.mixed_code = GetOriginalCodeOfBranch(analysed, "B")]
             ELSE IF Contains(suggestion, KeepA)
             THEN [analysed EXCEPT !.mixed_code = GetOriginalCodeOfBranch(analysed, "A")]
             ELSE [analysed EXCEPT !.mixed_code = DefaultPathCode(r, analysed, fusion)]

\* mutant: a block whose analysis call failed still gets a reconstructed final code
AnalyzeDiffBlockCodeOnFailure(diff_block, response, fusion) ==
    IF response.kind = "raise"
    THEN [diff_block EXCEPT !.modification_type = AnalysisFailed,
                            !.resolution_suggestion = ManualReview,
                            !.resolution_suggestion_reason = "",
                            !.mixed_code = GetOriginalCodeOfBranch(diff_block, "B")]
    ELSE LET r == ParseLLMResponse(response)
             get(m, default) == IF r.present THEN r.sections[m] ELSE default
             suggestion == IF r.present THEN r.resolution_suggestion ELSE NoSuggestion
             analysed ==
                 [diff_block EXCEPT
                    !.modification_type = get("MODIFICATION_TYPE", UnknownType),
                    !.branchA_content = LLMText(get("MODIFICATION_CONTENT", "")),
                    !.branchA_reason = get("MODIFICATION_REASON", ""),
                    !.branchA_influence = get("MODIFICATION_INFLUENCE", ""),
                    !.branchB_content = LLMText(get("INTRUSIVE_CONTENT", "")),
                    !.branchB_reason = get("INTRUSIVE_REASON", ""),
                    !.branchB_influence = get("INTRUSIVE_INFLUENCE", ""),
                    !.resolution_suggestion = suggestion,
                    !.resolution_suggestion_reason =
                        IF r.present THEN r.resolution_suggestion_reason ELSE ""]
         IN  IF Contains(suggestion, KeepA)
             THEN [analysed EXCEPT !.mixed_code = GetOriginalCodeOfBranch(analysed, "A")]
             ELSE IF Contains(suggestion, KeepB)
             THEN [analysed EXCEPT !.mixed_code = GetOriginalCodeOfBranch(analysed, "B")]
             ELSE [analysed EXCEPT !.mixed_code = DefaultPathCode(r, analysed, fusion)]

\* analyze_diff_block
AnalyzeDiffBlock(diff_block, response, fusion) ==
    IF response.kind = "raise"
    THEN [diff_block EXCEPT !.modification_type = AnalysisFailed,
                            !.resolution_suggestion = ManualReview,
                            !.resolution_suggestion_reason = ""]
    ELSE LET r == ParseLLMResponse(response)
             get(m, default) == IF r.present THEN r.sections[m] ELSE default
             suggestion == IF r.present THEN r.resolution_suggestion ELSE NoSuggestion
             analysed ==
                 [diff_block EXCEPT
                    !.modification_type = get("MODIFICATION_TYPE", UnknownType),
                    !.branchA_content = LLMText(get("MODIFICATION_CONTENT", "")),
                    !.branchA_reason = get("MODIFICATION_REASON", ""),
                    !.branchA_influence = get("MODIFICATION_INFLUENCE", ""),
                    !.branchB_content = LLMText(get("INTRUSIVE_CONTENT", "")),
                    !.branchB_reason = get("INTRUSIVE_REASON", ""),
                    !.branchB_influence = get("INTRUSIVE_INFLUENCE", ""),
                    !.resolution_suggestion = suggestion,
                    !.resolution_suggestion_reason =
                        IF r.present THEN r.resolution_suggestion_reason ELSE ""]
         IN  IF Contains(suggestion, KeepA)
             THEN [analysed EXCEPT !.mixed_code = GetOriginalCodeOfBranch(analysed, "A")]
             ELSE IF Contains(suggestion, KeepB)
             THEN [analysed EXCEPT !.mixed_code = GetOriginalCodeOfBranch(analysed, "B")]
             ELSE [analysed EXCEPT !.mixed_code = DefaultPathCode(r, analysed, fusion)]

\* analyze_diff_block reaches the create call of _generate_mixed_code
SecondCallMade(diff_block, response) ==
    /\ TakesFusionPath(response)
    /\ NeedsGeneration(ParseLLMResponse(response))
    /\ FusionCallMade(AnalyzeDiffBlock(diff_block, response, [kind |-> "raise", code |-> <<>>]))

\* mutant: the second call is made after every analysis that succeeded, the
\* keep-branch paths included
CallsOfFusesOnKeep(diff_block, response) ==
    <<[id |-> diff_block.id, call |-> "analysis"]>>
    \o (IF response.kind # "raise"
           /\ FusionCallMade(AnalyzeDiffBlock(diff_block, response, [kind |-> "raise", code |-> <<>>]))
        THEN <<[id |-> diff_block.id, call |-> "fusion"]>>
        ELSE <<>>)

\* the model calls analyze_diff_block makes for the block
CallsOf(diff_block, response) ==
    <<[id |-> diff_block.id, call |-> "analysis"]>>
    \o (IF SecondCallMade(diff_block, response)
        THEN <<[id |-> diff_block.id, call |-> "fusion"]>>
        ELSE <<>>)

\* report_generator.block_to_dict
BlockToDict(block) ==
    [id |-> block.id,
     file_path_branchA |-> block.file_path_branchA,
     file_path_branchB |-> block.file_path_branchB,
     location_branchA |-> [startLine |-> block.location_branchA.start_line,
                           endLine |-> block.location_branchA.end_line],
     location_branchB |-> [startLine |-> block.location_branchB.start_line,
                           endLine |-> block.location_branchB.end_line],
     modification_type |-> block.modification_type,
     content |-> block.content,
     branchA_content |-> block.branchA_content,
     branchA_reason |-> block.branchA_reason,
     branchA_influence |-> block.branchA_influence,
     branchB_content |-> block.branchB_content,
     branchB_reason |-> block.branchB_reason,
     branchB_influence |-> block.branchB_influence,
     resolution_suggestion |-> block.resolution_suggestion,
     resolution_suggestion_reason |-> block.resolution_suggestion_reason,
     mixed_code |-> block.mixed_code]

DictsOf(bs) == [k \in DOMAIN bs |-> BlockToDict(bs[k])]

-----------------------------------------------------------------------------
(* CodeDiffAnalyzer.analyze_blocks, one loop iteration per step *)
BatchSize == 50

AnalyzeStart(bs) ==
    /\ diff_blocks' = bs
    /\ ai' = 1
    /\ analyzed_blocks' = <<>>
    /\ batch_blocks' = <<>>
    /\ part' = 1
    /\ pc' = "analyze"
    /\ UNCHANGED <<parts, calls, outcomes, report>>

\* mutant: a failed block is dropped and ends the loop
AnalyzeBlockAbortOnFailure(responses, fusions) ==
    /\ pc = "analyze"
    /\ ai <= Len(diff_blocks)
    /\ \E response \in responses, fusion \in fusions :
          LET analyzed_block == AnalyzeDiffBlock(diff_blocks[ai], response, fusion)
              batch == Append(batch_blocks, analyzed_block)
          IN  /\ (~ SecondCallMade(diff_blocks[ai], response))
                     => fusion = [kind |-> "raise", code |-> <<>>]
              /\ diff_blocks' = [diff_blocks EXCEPT ![ai] = analyzed_block]
              /\ analyzed_blocks' = IF response.kind = "raise" THEN analyzed_blocks
                                    ELSE Append(analyzed_blocks, analyzed_block)
              /\ ai' = IF response.kind = "raise" THEN Len(diff_blocks) + 1 ELSE ai + 1
              /\ calls' = calls \o CallsOf(diff_blocks[ai], response)
              /\ outcomes' = Append(outcomes, [id |-> diff_blocks[ai].id,
                                               analysis |-> response,
                                               fusion |-> fusion])
              /\ IF Len(batch) = BatchSize
                 THEN /\ parts' = Append(parts, [part |-> part, res |-> DictsOf(batch)])
                      /\ part' = part + 1
                      /\ batch_blocks' = <<>>
                 ELSE /\ batch_blocks' = batch
                      /\ UNCHANGED <<part, parts>>
    /\ UNCHANGED <<permuteVars, pc, run, readerVars, buildVars, results, matchVars, report>>

AnalyzeBlock(responses, fusions) ==
    /\ pc = "analyze"
    /\ ai <= Len(diff_blocks)
    /\ \E response \in responses, fusion \in fusions :
          LET analyzed_block == AnalyzeDiffBlock(diff_blocks[ai], response, fusion)
              batch == Append(batch_blocks, analyzed_block)
          IN  /\ (~ SecondCallMade(diff_blocks[ai], response))
                     => fusion = [kind |-> "raise", code |-> <<>>]
              /\ diff_blocks' = [diff_blocks EXCEPT ![ai] = analyzed_block]
              /\ analyzed_blocks' = Append(analyzed_blocks, analyzed_block)
              /\ calls' = calls \o CallsOf(diff_blocks[ai], response)
              /\ outcomes' = Append(outcomes, [id |-> diff_blocks[ai].id,
                                               analysis |-> response,
                                               fusion |-> fusion])
              /\ IF Len(batch) = BatchSize
                 THEN /\ parts' = Append(parts, [part |-> part, res |-> DictsOf(batch)])
                      /\ part' = part + 1
                      /\ batch_blocks' = <<>>
                 ELSE /\ batch_blocks' = batch
                      /\ UNCHANGED <<part, parts>>
    /\ ai' = ai + 1
    /\ UNCHANGED <<permuteVars, pc, run, readerVars, buildVars, results, matchVars, report>>

\* mutant: the last part file is written even when no block is left over
AnalyzeReturnAlwaysWrites ==
    /\ pc = "analyze"
    /\ ai > Len(diff_blocks)
    /\ parts' = Append(parts, [part |-> part, res |-> DictsOf(batch_blocks)])
    /\ report' = DictsOf(analyzed_blocks)
    /\ pc' = "reported"
    /\ UNCHANGED <<permuteVars, run, readerVars, buildVars, results, matchVars,
                   diff_blocks, ai, analyzed_blocks, batch_blocks, part, calls,
                   outcomes>>

AnalyzeReturn ==
    /\ pc = "analyze"
    /\ ai > Len(diff_blocks)
    /\ parts' = IF batch_blocks # <<>>
                THEN Append(parts, [part |-> part, res |-> DictsOf(batch_blocks)])
                ELSE parts
    /\ report' = DictsOf(analyzed_blocks)
    /\ pc' = "reported"
    /\ UNCHANGED <<permuteVars, run, readerVars, buildVars, results, matchVars,
                   diff_blocks, ai, analyzed_blocks, batch_blocks, part, calls,
                   outcomes>>

\* analyze_diff_content: the blocks of parse_diff go to analyze_blocks
AnalyzeDiffContent ==
    /\ pc = "returned" /\ run = 1
    /\ AnalyzeStart(results[1])
    /\ UNCHANGED <<permuteVars, run, readerVars, buildVars, results, matchVars>>

DiffResponses == {RaiseResponse, TextResponse(Sections, <<Fusion>>, TRUE, "why")}
DiffFusions == {[kind |-> "raise", code |-> <<>>], [kind |-> "text", code |-> <<"fused">>]}

-----------------------------------------------------------------------------
IdleBuild ==
    /\ diffA = <<>> /\ diffB = <<>> /\ diffAB = <<>>
    /\ file_reports = <<>> /\ blocks = <<>> /\ block_id = 0 /\ fi = 0 /\ hi = 0

IdleReader ==
    /\ input = <<>> /\ pos = 0
    /\ file_hunks = ReaderStart.file_hunks
    /\ current_file = ReaderStart.current_file
    /\ current_hunk_lines = ReaderStart.current_hunk_lines
    /\ hunk_start = ReaderStart.hunk_start
    /\ hunk_end = ReaderStart.hunk_end

IdleMatch == hunks = <<>> /\ target = NoMatch /\ found = NoMatch

IdleAnalyze ==
    /\ diff_blocks = <<>> /\ ai = 0 /\ analyzed_blocks = <<>> /\ batch_blocks = <<>>
    /\ part = 0 /\ parts = <<>> /\ calls = <<>> /\ outcomes = <<>> /\ report = <<>>

IdlePermute == sections = <<>> /\ permuted = <<>> /\ parsed = <<>>

(* The reader alone, on every text of at most MaxLines lines *)
ReaderInit ==
    /\ pc = "read" /\ run = 1 /\ results = <<>>
    /\ IdleReader /\ IdleBuild /\ IdleMatch /\ IdleAnalyze /\ IdlePermute

ReaderNext == ReadStep(ReaderLines, MaxLines) \/ ReadReturn

SpecReader == ReaderInit /\ [][ReaderNext]_vars

-----------------------------------------------------------------------------
(* _find_matching_hunk alone, on candidate sequences of one file *)
MatchRanges == {r \in (0..MaxLineNo) \X (0..MaxLineNo) : r[1] <= r[2]}
MatchHunks == {DiffHunk("a.py", r[1], r[2], <<HunkLine(r[1], r[2] - r[1], r[1], r[2] - r[1])>>) :
                  r \in MatchRanges}
                 \cup {DiffHunk("a.py", None, None, <<TextLine(" ", "same")>>)}

MatchInit ==
    /\ pc = "match" /\ run = 1 /\ results = <<>>
    /\ hunks \in SeqsUpTo(MatchHunks, MaxCandidates)
    /\ target \in MatchHunks
    /\ found = NoMatch
    /\ IdleReader /\ IdleBuild /\ IdleAnalyze /\ IdlePermute

MatchCall ==
    /\ pc = "match"
    /\ found' = FindMatchingHunk(hunks, target)
    /\ pc' = "matched"
    /\ UNCHANGED <<permuteVars, run, readerVars, buildVars, results, hunks, target, analyzeVars>>

MatchNext == MatchCall

SpecMatch == MatchInit /\ [][MatchNext]_vars

-----------------------------------------------------------------------------
(* DiffParser.parse (MR mode) followed by the flattening of main() *)
ABLines == {GitLine, FileLine("a.py"), FileLine("b.py"),
            HunkLine(5, 1, 2, NoLen), HunkLine(6, 2, 4, 0), TextLine("+", "new")}
SideLines == {FileLine("a.py"), HunkLine(1, 1, 1, 0), HunkLine(3, 3, 3, 1)}

ABDiffs == {ParseDiffLines(t) : t \in SeqsUpTo(ABLines, MaxABLines)}
SideDiffs == {ParseDiffLines(t) : t \in SeqsUpTo(SideLines, MaxSideLines)}

MRInit ==
    /\ pc = "start" /\ run = 1 /\ results = <<>>
    /\ IdleReader /\ IdleBuild /\ IdleMatch /\ IdleAnalyze /\ IdlePermute

MRParse ==
    /\ pc = "start"
    /\ \E a \in SideDiffs, b \in SideDiffs, ab \in ABDiffs : BuildStart(a, b, ab)
    /\ UNCHANGED <<permuteVars, run, readerVars, results, matchVars, analyzeVars>>

MRFlatten ==
    /\ pc = "built"
    /\ results' = Append(results, Flatten(file_reports))
    /\ pc' = "returned"
    /\ UNCHANGED <<permuteVars, run, readerVars, buildVars, matchVars, analyzeVars>>

MRNext == MRParse \/ BuildBlock \/ BuildFileReport \/ BuildReturn \/ MRFlatten

SpecMR == MRInit /\ [][MRNext]_vars

-----------------------------------------------------------------------------
(* Single-diff mode: analyze_diff_content = parse_diff, then analyze_blocks *)
Init ==
    /\ pc = "read" /\ run = 1 /\ results = <<>>
    /\ IdleReader /\ IdleBuild /\ IdleMatch /\ IdleAnalyze /\ IdlePermute

Next ==
    \/ ReadStep(DiffLines, MaxDiffLines)
    \/ ReadReturn
    \/ ParseDiffBuild
    \/ BuildBlock
    \/ BuildFileReport
    \/ BuildReturn
    \/ ParseDiffReturn
    \/ AnalyzeDiffContent
    \/ AnalyzeBlock(DiffResponses, DiffFusions)
    \/ AnalyzeReturn

Spec == Init /\ [][Next]_vars

(* parse_diff called twice on one DiffParser with the same text *)
TwiceInit ==
    /\ pc = "read" /\ run = 1 /\ results = <<>>
    /\ IdleReader /\ IdleBuild /\ IdleMatch /\ IdleAnalyze /\ IdlePermute

TwiceNext ==
    \/ ReadStep(DiffLines, MaxDiffLines)
    \/ ReplayStep
    \/ ReadReturn
    \/ ParseDiffBuild
    \/ BuildBlock
    \/ BuildFileReport
    \/ BuildReturn
    \/ ParseDiffReturn
    \/ ParseDiffAgain

SpecTwice == TwiceInit /\ [][TwiceNext]_vars

-----------------------------------------------------------------------------
(* The reader on a text of per-file sections and on the same sections in   *)
(* another order.  A section is the file header ("--- " line, "+++ " line)  *)
(* and the hunks of one file, led by a "diff --git" line in git's output    *)
(* and by nothing in the output of diff -u.                                 *)
MaxSections == 3

SectionPaths == <<"a.py", "b.py", "c.py", "d.py", "e.py">>
MinusLine == TextLine("-", "-- a/old")
SectionHunks == {<<HunkLine(7, 1, 1, NoLen)>>,
                 <<HunkLine(7, 1, 1, NoLen), TextLine("+", "new")>>,
                 <<HunkLine(9, 4, 2, 2), TextLine(" ", "same"), HunkLine(7, 1, 1, NoLen)>>}

Section(style, path, body) ==
    (IF style = "git" THEN <<GitLine>> ELSE <<>>) \o <<MinusLine, FileLine(path)>> \o body

SectionLists ==
    UNION {{[i \in 1..n |-> Section(style, SectionPaths[i], bodies[i])] :
               bodies \in [1..n -> SectionHunks]} :
           n \in 2..MaxSections, style \in {"git", "plain"}}

Orders(n) == {f \in [1..n -> 1..n] : \A i, j \in 1..n : f[i] = f[j] => i = j}

RECURSIVE Concat(_)
Concat(ss) == IF ss = <<>> THEN <<>> ELSE Head(ss) \o Concat(Tail(ss))

PermuteInit ==
    /\ pc = "permute" /\ run = 1 /\ results = <<>>
    /\ sections \in SectionLists
    /\ \E f \in Orders(Len(sections)) :
          permuted = [i \in 1..Len(sections) |-> sections[f[i]]]
    /\ parsed = <<>>
    /\ IdleReader /\ IdleBuild /\ IdleMatch /\ IdleAnalyze

\* parse_diff_text on each of the two texts
ParseBothOrders ==
    /\ pc = "permute"
    /\ parsed' = <<ParseDiffLines(Concat(sections)), ParseDiffLines(Concat(permuted))>>
    /\ pc' = "permuted"
    /\ UNCHANGED <<run, readerVars, buildVars, results, matchVars, analyzeVars,
                   sections, permuted>>

PermuteNext == ParseBothOrders

SpecPermute == PermuteInit /\ [][PermuteNext]_vars

-----------------------------------------------------------------------------
(* analyze_blocks on block lists as build_diff_blocks makes them (the MR    *)
(* entry of main()), under every pattern of call results.  results[1]      *)
(* keeps the blocks as the Builder returned them.                           *)
MaxBlocks == 2

OldLine == TextLine("-", "old line")
NewLine == TextLine("+", "new line")
SameLine == TextLine(" ", "same line")

\* texts of A<->B hunks: a replacement with context, a pure insertion, a
\* deletion against a whitespace-only insertion, and a hunk of lines that no
\* side keeps
HunkTexts == {<<HunkLine(10, 2, 10, 3), OldLine, NewLine, SameLine>>,
              <<HunkLine(1, 0, 1, 1), NewLine>>,
              <<HunkLine(4, 1, 4, 1), OldLine, TextLine("+", " ")>>,
              <<HunkLine(6, 1, 6, 1), TextLine("", ""),
                TextLine("\\", " No newline at end of file"),
                TextLine("@", "@ garbage"), TextLine(" ", "")>>}

SideHunk == DiffHunk("a.py", 10, 12, <<HunkLine(9, 2, 10, 2), SameLine>>)

HunkOf(text) ==
    DiffHunk("a.py", text[1].nstart, HunkEnd(text[1].nstart, text[1].nlen), text)

\* the blocks build_diff_blocks makes of these hunks, with and without a
\* correlated A-side hunk
BuiltBlocks(id) ==
    {DiffBlock(id, "a.py", HunkOf(text), NoMatch, NoMatch) : text \in HunkTexts}
    \cup {DiffBlock(id, "a.py", HunkOf(text), SideHunk, NoMatch) :
              text \in {t \in HunkTexts : t[1].nstart = 10}}

BlockLists ==
    UNION {{bs \in [1..n -> UNION {BuiltBlocks(id) : id \in 1..n}] :
               \A k \in 1..n : bs[k] \in BuiltBlocks(k)} : n \in 0..MaxBlocks}

AnalysisResponses ==
    {RaiseResponse, NoneResponse,
     TextResponse(Sections, <<KeepA>>, TRUE, "why"),
     TextResponse(Sections, <<KeepB>>, FALSE, ""),
     TextResponse({"MODIFICATION_TYPE"}, <<KeepB, KeepA>>, TRUE, "why"),
     TextResponse(Sections, <<Fusion>>, FALSE, "")}

AnalyzeInit ==
    /\ pc = "analyze" /\ run = 1
    /\ diff_blocks \in BlockLists
    /\ results = <<diff_blocks>>
    /\ ai = 1 /\ analyzed_blocks = <<>> /\ batch_blocks = <<>> /\ part = 1
    /\ parts = <<>> /\ calls = <<>> /\ outcomes = <<>> /\ report = <<>>
    /\ IdleReader /\ IdleBuild /\ IdleMatch /\ IdlePermute

AnalyzeNext == AnalyzeBlock(AnalysisResponses, FusionResponses) \/ AnalyzeReturn

SpecAnalyze == AnalyzeInit /\ [][AnalyzeNext]_vars

-----------------------------------------------------------------------------
(* analyze_blocks when analysis responses embed a fused code text: a usable *)
(* text, an echo of the field name, none; on the default path and on a     *)
(* keep-branch path.                                                        *)
EmbeddedText == <<"fused by the analysis">>

EmbeddingResponses ==
    {EmbeddingResponse(<<Fusion>>, EmbeddedText),
     EmbeddingResponse(<<Manual>>, EmbeddedText),
     EmbeddingResponse(<<Fusion>>, <<"MIXED_CODE">>),
     EmbeddingResponse(<<Fusion>>, <<>>),
     EmbeddingResponse(<<KeepA>>, EmbeddedText)}

EmbeddedNext == AnalyzeBlock(EmbeddingResponses, FusionResponses) \/ AnalyzeReturn

SpecEmbedded == AnalyzeInit /\ [][EmbeddedNext]_vars

-----------------------------------------------------------------------------
(* analyze_blocks on lists long enough to fill part files *)
MaxBatchBlocks == 101

BatchBlock(id) ==
    DiffBlock(id, "a.py", HunkOf(<<HunkLine(1, 0, 1, 1), NewLine>>), NoMatch, NoMatch)

BatchResponses == {TextResponse(Sections, <<KeepB>>, FALSE, "")}

BatchInit ==
    /\ pc = "analyze" /\ run = 1
    /\ \E n \in 0..MaxBatchBlocks : diff_blocks = [k \in 1..n |-> BatchBlock(k)]
    /\ results = <<diff_blocks>>
    /\ ai = 1 /\ analyzed_blocks = <<>> /\ batch_blocks = <<>> /\ part = 1
    /\ parts = <<>> /\ calls = <<>> /\ outcomes = <<>> /\ report = <<>>
    /\ IdleReader /\ IdleBuild /\ IdleMatch /\ IdlePermute

BatchNext == AnalyzeBlock(BatchResponses, FusionResponses) \/ AnalyzeReturn

SpecBatch == BatchInit /\ [][BatchNext]_vars

-----------------------------------------------------------------------------
(* Properties *)
RECURSIVE TotalHunks(_)
TotalHunks(d) == IF d = <<>> THEN 0 ELSE Len(Head(d).hunks) + TotalHunks(Tail(d))

RECURSIVE TotalBlocks(_)
TotalBlocks(frs) == IF frs = <<>> THEN 0 ELSE Len(Head(frs).diff_blocks) + TotalBlocks(Tail(frs))

RECURSIVE AllHunks(_)
AllHunks(d) == IF d = <<>> THEN <<>> ELSE Head(d).hunks \o AllHunks(Tail(d))

RECURSIVE AllBlocks(_)
AllBlocks(frs) == IF frs = <<>> THEN <<>> ELSE Head(frs).diff_blocks \o AllBlocks(Tail(frs))

HasHeader(h) == h.content # <<>> /\ h.content[1].k = "hunk"

\* the candidate sequences of file f in mapping d (one, or none)
HunkListsOf(d, f) == {d[i].hunks : i \in {j \in DOMAIN d : d[j].file = f}}

\* first index of hs whose range meets the range of t, 0 if there is none
FirstMeeting(hs, t) ==
    LET S == {i \in DOMAIN hs : hs[i].start_line <= t.end_line
                                /\ t.start_line <= hs[i].end_line}
    IN  IF S = {} THEN 0 ELSE CHOOSE i \in S : \A j \in S : i <= j

C2_SequentialIds ==
    pc = "built" =>
        \A k \in DOMAIN AllBlocks(file_reports) : AllBlocks(file_reports)[k].id = k

C2_Witness ==
    /\ pc = "built"
    /\ Len(file_reports) = 2
    /\ Len(file_reports[1].diff_blocks) >= 1
    /\ Len(file_reports[2].diff_blocks) = 2
    /\ file_reports[2].diff_blocks[2].id = 3

\* C3 (as claimed): for every hunk returned by the reader that carries its
\* header, start_line is the header's target-side start and
\* end_line - start_line + 1 is the header's target-side length, 1 if omitted.
C3_DeclaredLength ==
    pc = "parsed" =>
        \A k \in DOMAIN AllHunks(file_hunks) :
            LET h == AllHunks(file_hunks)[k] IN
            HasHeader(h) =>
                /\ h.start_line = h.content[1].nstart
                /\ h.end_line - h.start_line + 1 =
                       (IF h.content[1].nlen = NoLen THEN 1 ELSE h.content[1].nlen)

\* C4 (as claimed): every hunk returned by the reader, for any line sequence,
\* has raw text that begins with a hunk-header line and has integer
\* start_line <= end_line.
C4_HunkWellFormed ==
    pc = "parsed" =>
        \A k \in DOMAIN AllHunks(file_hunks) :
            LET h == AllHunks(file_hunks)[k] IN
            /\ HasHeader(h)
            /\ h.start_line # None /\ h.end_line # None
            /\ h.start_line <= h.end_line

\* C5: when _find_matching_hunk returns, it returns the first hunk of the
\* sequence whose range meets the target's range (h.start <= target.end and
\* target.start <= h.end), and None exactly when no hunk of the sequence does.
C5_FirstOverlap ==
    (pc = "matched" /\ found # TypeError) =>
        /\ found = (IF FirstMeeting(hunks, target) = 0 THEN NoMatch
                    ELSE hunks[FirstMeeting(hunks, target)])
        /\ (found = NoMatch) <=>
               (\A i \in DOMAIN hunks : ~ (hunks[i].start_line <= target.end_line
                                           /\ target.start_line <= hunks[i].end_line))

C5_Witness ==
    /\ pc = "matched"
    /\ Len(hunks) = 3
    /\ FirstMeeting(hunks, target) = 2
    /\ found = hunks[2]
    /\ hunks[3] # hunks[2]
    /\ hunks[3].start_line <= target.end_line /\ target.start_line <= hunks[3].end_line

\* C6: the overlap test is reflexive and symmetric on ranges with
\* start <= end, and inclusive at the boundary: a target that is in the
\* sequence is matched, x is matched against y exactly when y is matched
\* against x, and two ranges that share one boundary line are matched.
C6_ReflexiveSymmetric ==
    (pc = "matched" /\ found # TypeError) =>
        /\ (target.start_line # None /\ \E i \in DOMAIN hunks : hunks[i] = target)
               => found # NoMatch
        /\ (Len(hunks) = 1 /\ target.start_line # None) =>
               ((found # NoMatch) <=> (FindMatchingHunk(<<target>>, hunks[1]) # NoMatch))
        /\ (Len(hunks) = 1 /\ target.start_line # None
               /\ (hunks[1].end_line = target.start_line
                   \/ target.end_line = hunks[1].start_line))
               => found = hunks[1]

C6_Witness ==
    /\ pc = "matched"
    /\ Len(hunks) = 1
    /\ hunks[1].start_line = 1 /\ hunks[1].end_line = 2
    /\ target.start_line = 2 /\ target.end_line = 3
    /\ found = hunks[1]

\* the expected side of a block: the first hunk of d for file f that meets
\* hAB, or the (0,0) / absent sentinels
SideIs(d, f, hAB, loc, content, raw) ==
    IF \E hs \in HunkListsOf(d, f) : FirstMeeting(hs, hAB) # 0
    THEN \A hs \in HunkListsOf(d, f) :
             LET m == hs[FirstMeeting(hs, hAB)] IN
             /\ loc = Location(m.start_line, m.end_line)
             /\ content = m.content
             /\ raw = m.content
    ELSE /\ loc = Location(0, 0)
         /\ content = NoneContent
         /\ raw = EmptyContent

\* C7: every block of a finished build carries, for side A and independently
\* for side B, the range and raw text of the first hunk of the same file in
\* diffA (diffB) that overlaps its A<->B hunk, or (0,0) and no text when there
\* is none; its A<->B text is the raw text of its own A<->B hunk.
C7_CorrelatedSides ==
    pc = "built" =>
        \A i \in DOMAIN file_reports : \A j \in DOMAIN file_reports[i].diff_blocks :
            LET b == file_reports[i].diff_blocks[j]
                f == diffAB[i].file
                hAB == diffAB[i].hunks[j]
            IN  /\ b.file_path_branchA = f /\ b.file_path_branchB = f
                /\ SideIs(diffA, f, hAB, b.location_branchA, b.branchA_content, b.diffA_raw)
                /\ SideIs(diffB, f, hAB, b.location_branchB, b.branchB_content, b.diffB_raw)
                /\ b.diff_ab_content = hAB.content
                /\ b.content = hAB.content

C7_Witness ==
    /\ pc = "built"
    /\ \E i \in DOMAIN file_reports : \E j \in DOMAIN file_reports[i].diff_blocks :
          LET b == file_reports[i].diff_blocks[j] IN
          /\ b.file_path_branchA = "a.py"
          /\ \E hs \in HunkListsOf(diffA, "a.py") : FirstMeeting(hs, diffAB[i].hunks[j]) = 2
          /\ b.location_branchA = Location(3, 4)
          /\ HunkListsOf(diffB, "a.py") # {}
          /\ b.location_branchB = Location(0, 0)
          /\ b.branchB_content = NoneContent
    /\ \E i \in DOMAIN file_reports :
          /\ file_reports[i].file_path = "b.py"
          /\ file_reports[i].diff_blocks[1].location_branchA = Location(0, 0)

FileOrder(d) == [i \in DOMAIN d |-> d[i].file]
ContentsOf(xs) == [k \in DOMAIN xs |-> xs[k].content]
IdsOf(xs) == [k \in DOMAIN xs |-> xs[k].id]
IsPrefix(x, y) == Len(x) <= Len(y) /\ \A i \in DOMAIN x : x[i] = y[i]
AnalysisCalls == SelectSeq(calls, LAMBDA c : c.call = "analysis")

C8_OrderNow ==
    /\ pc = "built" =>
          /\ [i \in DOMAIN file_reports |-> file_reports[i].file_path] = FileOrder(file_hunks)
          /\ \A i \in DOMAIN file_reports :
                ContentsOf(file_reports[i].diff_blocks) = ContentsOf(file_hunks[i].hunks)
    /\ pc = "returned" => ContentsOf(results[run]) = ContentsOf(AllHunks(file_hunks))
    /\ pc \in {"analyze", "reported"} =>
          /\ Len(analyzed_blocks) = ai - 1
          /\ IsPrefix(IdsOf(analyzed_blocks), IdsOf(results[1]))
          /\ IsPrefix(ContentsOf(analyzed_blocks), ContentsOf(results[1]))
          /\ IdsOf(AnalysisCalls) = IdsOf(analyzed_blocks)
    /\ pc = "reported" =>
          /\ IdsOf(report) = IdsOf(results[1])
          /\ ContentsOf(report) = ContentsOf(results[1])

\* C8: the reader keeps the files of its mapping in the order of their first
\* insertion; the builder's blocks follow that file order and, within a file,
\* the order of its A<->B hunks; the blocks are analysed (model calls
\* included) and reported in that same order.
C8_BlockOrder ==
    /\ [] C8_OrderNow
    /\ [][pc = "read" => IsPrefix(FileOrder(file_hunks), FileOrder(file_hunks'))]_vars

C8_Witness ==
    /\ pc = "reported"
    /\ Len(report) = 3
    /\ FileOrder(file_hunks) = <<"b.py", "a.py">>
    /\ report[1].file_path_branchA = "b.py"
    /\ report[2].file_path_branchA = "a.py"
    /\ report[2].content # report[3].content
    /\ report[2].modification_type = AnalysisFailed
    /\ report[3].modification_type # AnalysisFailed

\* the files named by the "+++ " lines of the text
FilesNamed(text) == {text[i].path : i \in {j \in DOMAIN text : text[j].k = "file"}}

\* C9: every FileReport of a finished build has at least one block, and a
\* file named in the diff text for which the reader stored no hunk has no
\* FileReport.
C9_NoEmptyFileReport ==
    pc = "built" =>
        /\ \A i \in DOMAIN file_reports : file_reports[i].diff_blocks # <<>>
        /\ \A f \in FilesNamed(input) :
               HunkListsOf(diffAB, f) \subseteq {<<>>} =>
                   \A i \in DOMAIN file_reports : file_reports[i].file_path # f

C9_Witness ==
    /\ pc = "built"
    /\ "a.py" \in FilesNamed(input)
    /\ HunkListsOf(diffAB, "a.py") = {}
    /\ Len(file_reports) = 1
    /\ file_reports[1].file_path = "b.py"

\* C10: the second parse-then-build run on the same text returns the same
\* block list as the first: same length, order, ids, locations and contents.
C10_Idempotent ==
    (pc = "returned" /\ run = 2) => results[2] = results[1]

C10_Witness ==
    /\ pc = "returned" /\ run = 2
    /\ Len(results[2]) = 2
    /\ results[2][1].id = 1 /\ results[2][2].id = 2
    /\ results[2][1].file_path_branchA # results[2][2].file_path_branchA

\* positions of the lines of a text that are no hunk header, no "diff --git"
\* line and no "+++ " line
BodyPositions(text) == {i \in DOMAIN text : text[i].k = "text"}

\* last position before i that holds a line of one of the kinds, 0 if none
LastBefore(text, i, kinds) ==
    LET S == {j \in 1..(i - 1) : text[j].k \in kinds}
    IN  IF S = {} THEN 0 ELSE CHOOSE j \in S : \A m \in S : m <= j

\* a file is current when line i is read
FileCurrentAt(text, i) ==
    LET j == LastBefore(text, i, {"git", "file"})
    IN  j # 0 /\ text[j].k = "file" /\ Truthy(text[j].path)

KeptPositions(text) == {i \in BodyPositions(text) : FileCurrentAt(text, i)}

\* the kept body lines that follow header p before any other header, in order
LinesUnder(text, p) ==
    LET idx == SelectSeq([i \in 1..Len(text) |-> i],
                         LAMBDA i : i \in KeptPositions(text)
                                    /\ LastBefore(text, i, {"hunk"}) = p)
    IN  [n \in DOMAIN idx |-> text[idx[n]]]

RECURSIVE BodyLinesOf(_)
BodyLinesOf(hs) ==
    IF hs = <<>> THEN <<>>
    ELSE SelectSeq(Head(hs).content, LAMBDA l : l.k = "text") \o BodyLinesOf(Tail(hs))

Occurrences(v, s) == Cardinality({i \in DOMAIN s : s[i] = v})

\* C11 (as claimed): when the reader returns, every body line read while a
\* file was current lies in the hunk opened by the nearest preceding hunk
\* header, verbatim and in input order; the returned hunks hold each such line
\* once and hold no line that was read while no file was current.
C11_LineAssignment ==
    pc = "parsed" =>
        /\ \A i \in KeptPositions(input) : LastBefore(input, i, {"hunk"}) # 0
        /\ \A p \in DOMAIN input :
              (input[p].k = "hunk" /\ LinesUnder(input, p) # <<>>) =>
                  \E k \in DOMAIN AllHunks(file_hunks) :
                      AllHunks(file_hunks)[k].content = <<input[p]>> \o LinesUnder(input, p)
        /\ \A v \in ReaderTextLines :
              Occurrences(v, BodyLinesOf(AllHunks(file_hunks)))
                  = Cardinality({i \in KeptPositions(input) : input[i] = v})

\* C12 (as claimed): the reader's result for a text of per-file sections with
\* distinct target paths and its result for the same sections in another
\* order give every file the same hunk list.
C12_ReorderInvariant ==
    pc = "permuted" =>
        \A f \in Keys(parsed[1]) \cup Keys(parsed[2]) :
            DictGet(parsed[1], f) = DictGet(parsed[2], f)

\* the lines of hunkText that are non-empty, do not start with "@@" and whose
\* first character is a space or the side's marker, each without its first
\* character, in order ('' and the join of one empty line are the same text)
Reconstruct(hunkText, side) ==
    LET marker == IF side = "A" THEN "-" ELSE "+"
        kept == SelectSeq(hunkText,
                    LAMBDA l : /\ ~ (l.mark = "" /\ l.text = "")
                               /\ ~ StartsWithAtAt(l)
                               /\ l.mark \in {" ", marker})
        texts == [i \in DOMAIN kept |-> kept[i].text]
    IN  IF texts = <<"">> THEN <<>> ELSE texts

ScenarioText == <<HunkLine(10, 2, 10, 3), OldLine, NewLine, SameLine>>

\* the side a keep-branch recommendation selects, "" on the fusion path
KeptSide(suggestion) ==
    IF Contains(suggestion, KeepA) THEN "A"
    ELSE IF Contains(suggestion, KeepB) THEN "B" ELSE ""

Succeeded(k) == outcomes[k].analysis.kind # "raise"

\* C13: the final code of a block analysed on a keep-branch path is the
\* reconstruction of its A<->B hunk text for that side: the kept lines
\* without their marker, in order; it holds no line marked for the other side
\* and every context line, and the scenario hunk gives "old line\nsame line"
\* for A and "new line\nsame line" for B.  The helper of the fusion path
\* computes the same text for both sides.
C13_Reconstruct ==
    \A k \in DOMAIN analyzed_blocks :
        LET b == analyzed_blocks[k]
            side == KeptSide(b.resolution_suggestion)
            other == IF side = "A" THEN "+" ELSE "-"
        IN  /\ (Succeeded(k) /\ side # "") =>
                  /\ b.mixed_code = Reconstruct(b.content, side)
                  /\ \A i \in DOMAIN b.content :
                        /\ b.content[i].mark = other
                              => ~ Contains(b.mixed_code, b.content[i].text)
                        /\ (b.content[i].mark = " " /\ b.content[i].text # "")
                              => Contains(b.mixed_code, b.content[i].text)
                  /\ b.content = ScenarioText =>
                        b.mixed_code = IF side = "A" THEN <<"old line", "same line">>
                                       ELSE <<"new line", "same line">>
            /\ \A s \in {"A", "B"} :
                  ExtractRawCodeFromDiff(b.content, s) = Reconstruct(b.content, s)

C13_Witness ==
    /\ Len(analyzed_blocks) = 2
    /\ Succeeded(1) /\ Succeeded(2)
    /\ analyzed_blocks[1].content = ScenarioText
    /\ analyzed_blocks[2].content = ScenarioText
    /\ KeptSide(analyzed_blocks[1].resolution_suggestion) = "A"
    /\ KeptSide(analyzed_blocks[2].resolution_suggestion) = "B"
    /\ analyzed_blocks[1].mixed_code = <<"old line", "same line">>
    /\ analyzed_blocks[2].mixed_code = <<"new line", "same line">>

FusionCalled(id) == \E c \in DOMAIN calls : calls[c] = [id |-> id, call |-> "fusion"]

\* C14 (as claimed): whenever the reconstruction of the requested side of a
\* block's A<->B hunk is empty or whitespace-only, the caller uses the
\* reconstruction of the other side: the final code of a keep-branch path is
\* then the other side's text, and the fusion path then takes its style
\* reference from the other side (so it makes its call whenever one of the
\* sides has text).
C14_OtherSideFallback ==
    \A k \in DOMAIN analyzed_blocks :
        LET b == analyzed_blocks[k]
            side == KeptSide(b.resolution_suggestion)
            otherSide == IF side = "A" THEN "B" ELSE "A"
        IN  Succeeded(k) =>
              /\ (side # "" /\ Blank(Reconstruct(b.content, side))) =>
                    b.mixed_code = Reconstruct(b.content, otherSide)
              /\ (side = "" /\ (~ Blank(Reconstruct(b.content, "A"))
                                \/ ~ Blank(Reconstruct(b.content, "B")))) =>
                    FusionCalled(b.id)

\* no result field of the block is set
Unanalyzed(b) ==
    /\ b.modification_type = Unset
    /\ b.branchA_reason = Unset /\ b.branchA_influence = Unset
    /\ b.branchB_reason = Unset /\ b.branchB_influence = Unset
    /\ b.resolution_suggestion = UnsetWords
    /\ b.resolution_suggestion_reason = Unset
    /\ b.mixed_code = UnsetCode

\* C15: a block not yet analysed has no result field set; a block whose
\* analysis call succeeded has its category, six narrative fields,
\* recommendation and justification set from the response, and its final
\* code set by exactly one path: the side-A reconstruction if the
\* recommendation contains the keep-A keyword (also when it contains both
\* keywords), else the side-B reconstruction if it contains the keep-B
\* keyword, else the text of the fusion path.
C15_ResolutionPaths ==
    /\ \A k \in DOMAIN diff_blocks : k >= ai => Unanalyzed(diff_blocks[k])
    /\ \A k \in DOMAIN analyzed_blocks :
          LET b == analyzed_blocks[k]
              r == outcomes[k].analysis
              f == outcomes[k].fusion
              s == b.resolution_suggestion
          IN  Succeeded(k) =>
                /\ b.modification_type # Unset
                /\ b.branchA_content # NoneContent /\ b.branchB_content # NoneContent
                /\ b.branchA_reason # Unset /\ b.branchA_influence # Unset
                /\ b.branchB_reason # Unset /\ b.branchB_influence # Unset
                /\ s = (IF r.kind = "text" THEN r.head ELSE NoSuggestion)
                /\ b.resolution_suggestion_reason
                       = (IF r.kind = "text" /\ r.colon THEN r.tail ELSE "")
                /\ IF Contains(s, KeepA)
                   THEN b.mixed_code = Reconstruct(b.content, "A") /\ ~ FusionCalled(b.id)
                   ELSE IF Contains(s, KeepB)
                   THEN b.mixed_code = Reconstruct(b.content, "B") /\ ~ FusionCalled(b.id)
                   ELSE b.mixed_code = (IF FusionCalled(b.id) /\ f.kind = "text"
                                        THEN f.code ELSE <<>>)

C15_Witness ==
    /\ Len(analyzed_blocks) = 2
    /\ Succeeded(1) /\ Succeeded(2)
    /\ analyzed_blocks[1].resolution_suggestion = <<KeepB, KeepA>>
    /\ analyzed_blocks[1].content = ScenarioText
    /\ analyzed_blocks[1].mixed_code = <<"old line", "same line">>
    /\ analyzed_blocks[2].resolution_suggestion = <<Fusion>>
    /\ FusionCalled(2)
    /\ analyzed_blocks[2].mixed_code = <<"fused">>

\* C16: a block whose analysis call raised is returned by analyze_diff_block
\* (it is in analyzed_blocks) with the analysis-failed category, the
\* manual-review recommendation and an empty justification; its final code
\* and its narrative fields stay as the Builder left them, and no fusion call
\* is made for it.
C16_AnalysisFailed ==
    /\ Len(analyzed_blocks) = Len(outcomes)
    /\ \A k \in DOMAIN analyzed_blocks :
          LET b == analyzed_blocks[k] IN
          ~ Succeeded(k) =>
              /\ b.id = outcomes[k].id
              /\ b.modification_type = AnalysisFailed
              /\ b.resolution_suggestion = ManualReview
              /\ b.resolution_suggestion_reason = ""
              /\ b.mixed_code = UnsetCode
              /\ b = [results[1][k] EXCEPT !.modification_type = AnalysisFailed,
                                           !.resolution_suggestion = ManualReview,
                                           !.resolution_suggestion_reason = ""]
              /\ ~ FusionCalled(b.id)

C16_Witness ==
    /\ Len(analyzed_blocks) = 2
    /\ ~ Succeeded(1) /\ Succeeded(2)
    /\ analyzed_blocks[1].modification_type = AnalysisFailed
    /\ analyzed_blocks[1].content = ScenarioText
    /\ analyzed_blocks[1].mixed_code = UnsetCode
    /\ analyzed_blocks[2].mixed_code = <<"new line", "same line">>

\* C17 (as claimed): a block whose analysis call succeeded and whose fusion
\* call raised ends with the analysis-failed category and the manual-review
\* recommendation.
C17_FusionFaultMarked ==
    \A k \in DOMAIN analyzed_blocks :
        LET b == analyzed_blocks[k] IN
        (Succeeded(k) /\ FusionCalled(b.id) /\ outcomes[k].fusion.kind = "raise") =>
            /\ b.modification_type = AnalysisFailed
            /\ b.resolution_suggestion = ManualReview

\* C18: under every pattern of returning and raising calls, after each
\* iteration the blocks analysed so far are the first blocks of the input
\* list, one analysis call each, in list order, a failed block included; the
\* finished run reports every input block once, in input order, and a failed
\* block shows in the report by its sentinel values.  Until the report is
\* made the loop counter stays within the list, so that the next iteration
\* or the final report can follow whatever the earlier calls did.
C18_EveryBlockOnce ==
    /\ pc = "analyze" => ai \in 1..(Len(diff_blocks) + 1)
    /\ Len(analyzed_blocks) = ai - 1
    /\ Len(outcomes) = ai - 1
    /\ IdsOf(analyzed_blocks) = IdsOf(SubSeq(results[1], 1, ai - 1))
    /\ ContentsOf(analyzed_blocks) = ContentsOf(SubSeq(results[1], 1, ai - 1))
    /\ IdsOf(AnalysisCalls) = IdsOf(SubSeq(results[1], 1, ai - 1))
    /\ \A c \in DOMAIN calls : calls[c].call = "fusion" =>
          (c > 1 /\ calls[c - 1] = [id |-> calls[c].id, call |-> "analysis"])
    /\ pc = "reported" =>
          /\ ai = Len(results[1]) + 1
          /\ Len(report) = Len(results[1])
          /\ IdsOf(report) = IdsOf(results[1])
          /\ ContentsOf(report) = ContentsOf(results[1])
          /\ \A k \in DOMAIN report :
                /\ report[k] = BlockToDict(analyzed_blocks[k])
                /\ ~ Succeeded(k) =>
                      /\ report[k].modification_type = AnalysisFailed
                      /\ report[k].resolution_suggestion = ManualReview

C18_Witness ==
    /\ pc = "reported"
    /\ Len(report) = 2
    /\ ~ Succeeded(1) /\ Succeeded(2)
    /\ report[1].modification_type = AnalysisFailed
    /\ report[2].modification_type # AnalysisFailed
    /\ report[2].id = 2
    /\ calls = <<[id |-> 1, call |-> "analysis"], [id |-> 2, call |-> "analysis"],
                 [id |-> 2, call |-> "fusion"]>>

PartsWritten == Concat([i \in DOMAIN parts |-> parts[i].res])

\* C19: while analyze_blocks runs, after k analysed blocks exactly k div 50
\* part files are written and the k mod 50 newest blocks wait in the batch;
\* part i has number i and holds the analysed blocks 50(i-1)+1 .. 50i in
\* order.  At the end the blocks left over are written as one more part if
\* and only if there are any, so that no part is empty or longer than 50 and
\* the parts in number order make up the final block list.
C19_PartsOfFifty ==
    LET k == Len(analyzed_blocks) IN
    /\ pc = "analyze" =>
          /\ Len(parts) = k \div 50
          /\ Len(batch_blocks) = k % 50
          /\ part = Len(parts) + 1
    /\ pc = "reported" =>
          /\ Len(parts) = (k \div 50) + (IF k % 50 = 0 THEN 0 ELSE 1)
          /\ PartsWritten = report
    /\ \A i \in DOMAIN parts :
          LET last == IF 50 * i <= k THEN 50 * i ELSE k IN
          /\ parts[i].part = i
          /\ Len(parts[i].res) \in 1..50
          /\ parts[i].res = DictsOf(SubSeq(analyzed_blocks, 50 * (i - 1) + 1, last))

C19_Witness ==
    /\ pc = "reported"
    /\ Len(report) = 101
    /\ Len(parts) = 3
    /\ Len(parts[1].res) = 50 /\ Len(parts[2].res) = 50 /\ Len(parts[3].res) = 1
    /\ parts[2].res[50].id = 100
    /\ parts[3].res[1].id = 101

\* C20 (as claimed): every block of the list, analysed or not, successfully
\* or not, has the identifier, file path, A- and B-location, A-hunk text,
\* B-hunk text and A<->B-hunk text the Builder gave it, its serialized record
\* reports those values, and a block that is not yet analysed is unchanged.
C20_BuilderFieldsKept ==
    \A k \in DOMAIN diff_blocks :
        LET b == diff_blocks[k]
            built == results[1][k]
            d == BlockToDict(b)
        IN  /\ b.id = built.id
            /\ b.file_path_branchA = built.file_path_branchA
            /\ b.file_path_branchB = built.file_path_branchB
            /\ b.location_branchA = built.location_branchA
            /\ b.location_branchB = built.location_branchB
            /\ b.branchA_content = built.branchA_content
            /\ b.branchB_content = built.branchB_content
            /\ b.diff_ab_content = built.diff_ab_content
            /\ d.id = built.id
            /\ d.file_path_branchA = built.file_path_branchA
            /\ d.location_branchA.startLine = built.location_branchA.start_line
            /\ d.location_branchA.endLine = built.location_branchA.end_line
            /\ d.location_branchB.startLine = built.location_branchB.start_line
            /\ d.location_branchB.endLine = built.location_branchB.end_line
            /\ d.branchA_content = built.branchA_content
            /\ d.branchB_content = built.branchB_content
            /\ d.content = built.diff_ab_content
            /\ k >= ai => b = built

\* C21: a hunk header opens a hunk whose start line is the header's
\* target-side start and whose end line is start + target-side length when the
\* header gives a length (end = start for a length of 0) and start + 1 when
\* it gives none; this holds for the open hunk while the reader runs and for
\* every returned hunk that carries its header.
C21_HeaderRange ==
    LET Ranged(header, s, e) ==
            /\ s = header.nstart
            /\ header.nlen # NoLen => e = s + header.nlen
            /\ header.nlen = 0 => e = s
            /\ header.nlen = NoLen => e = s + 1
    IN  /\ (pc = "read" /\ current_hunk_lines # <<>> /\ current_hunk_lines[1].k = "hunk") =>
               Ranged(current_hunk_lines[1], hunk_start, hunk_end)
        /\ pc = "parsed" =>
               \A k \in DOMAIN AllHunks(file_hunks) :
                   LET h == AllHunks(file_hunks)[k] IN
                   HasHeader(h) => Ranged(h.content[1], h.start_line, h.end_line)

C21_Witness ==
    /\ pc = "parsed"
    /\ \E k \in DOMAIN AllHunks(file_hunks) :
          LET h == AllHunks(file_hunks)[k] IN
          HasHeader(h) /\ h.content[1].nlen = 0 /\ h.start_line = 3 /\ h.end_line = 3
    /\ \E k \in DOMAIN AllHunks(file_hunks) :
          LET h == AllHunks(file_hunks)[k] IN
          HasHeader(h) /\ h.content[1].nlen = NoLen /\ h.start_line = 1 /\ h.end_line = 2
    /\ \E k \in DOMAIN AllHunks(file_hunks) :
          LET h == AllHunks(file_hunks)[k] IN
          HasHeader(h) /\ h.content[1].nlen = 2 /\ h.start_line = 2 /\ h.end_line = 4

\* the path of the "+++ " line that is current when line i is read, NoFile
\* if none is
PathAt(text, i) ==
    LET j == LastBefore(text, i, {"git", "file"})
    IN  IF j # 0 /\ text[j].k = "file" THEN text[j].path ELSE NoFile

\* the body lines that follow header p before the next hunk header or
\* "diff --git" line, in order
BodyAfter(text, p) ==
    LET idx == SelectSeq([i \in 1..Len(text) |-> i],
                         LAMBDA i : text[i].k = "text"
                                    /\ LastBefore(text, i, {"hunk", "git"}) = p)
    IN  [n \in DOMAIN idx |-> text[idx[n]]]

\* C22 (as claimed): every hunk the reader returns is stored under, and
\* carries as file_path, the path of the "+++ " line that was current when
\* its header was read; every header read while a file was current gives a
\* returned hunk of that file, holding the header and all body lines up to
\* the next header, whatever "+++ " lines follow the header.
C22_OwningFile ==
    pc = "parsed" =>
        /\ \A i \in DOMAIN file_hunks : \A k \in DOMAIN file_hunks[i].hunks :
              LET h == file_hunks[i].hunks[k] IN
              /\ h.file_path = file_hunks[i].file
              /\ HasHeader(h) =>
                    \E p \in DOMAIN input :
                        /\ input[p] = h.content[1]
                        /\ PathAt(input, p) = h.file_path
        /\ \A p \in DOMAIN input :
              (input[p].k = "hunk" /\ FileCurrentAt(input, p)) =>
                  \E hs \in HunkListsOf(file_hunks, PathAt(input, p)) :
                      \E k \in DOMAIN hs :
                          hs[k].content = <<input[p]>> \o BodyAfter(input, p)

\* the analysis response of the k-th analysed block embeds a fused code text
\* that is non-empty and no echo of the field name
EmbedsFusedCode(k) ==
    LET text == outcomes[k].analysis.mixed_code
    IN  ~ Blank(text) /\ ~ IsFieldNameEcho(text)

\* C23 (as claimed): on the fusion/manual-review path, a block whose analysis
\* response embeds a usable fused code text gets that text as its final code
\* and no second model call is made for it; a second call is made only for a
\* block whose response embeds no such text.
C23_EmbeddedFusedCode ==
    \A k \in DOMAIN outcomes :
        /\ (TakesFusionPath(outcomes[k].analysis) /\ EmbedsFusedCode(k)) =>
              /\ diff_blocks[k].mixed_code = outcomes[k].analysis.mixed_code
              /\ ~ FusionCalled(outcomes[k].id)
        /\ FusionCalled(outcomes[k].id) =>
              (TakesFusionPath(outcomes[k].analysis) /\ ~ EmbedsFusedCode(k))

\* the number of calls of one kind made for block id
CallCount(id, kind) == Cardinality({c \in DOMAIN calls : calls[c] = [id |-> id, call |-> kind]})

\* C24: every analysed block has had exactly one analysis call and at most
\* one fusion call (so at most two calls, a failed call never repeated), a
\* block not yet analysed none; a fusion call is made only for a block whose
\* analysis call succeeded with a recommendation that selects neither branch;
\* the calls are made block after block, the analysis call of a block before
\* its fusion call.
C24_CallsPerBlock ==
    /\ \A k \in DOMAIN diff_blocks :
          LET id == diff_blocks[k].id IN
          IF k \in DOMAIN outcomes
          THEN /\ CallCount(id, "analysis") = 1
               /\ CallCount(id, "fusion") <= 1
               /\ CallCount(id, "fusion") = 1 =>
                     /\ Succeeded(k)
                     /\ KeptSide(diff_blocks[k].resolution_suggestion) = ""
          ELSE CallCount(id, "analysis") = 0 /\ CallCount(id, "fusion") = 0
    /\ Len(calls) <= 2 * Len(outcomes)
    /\ \A c \in DOMAIN calls : \E k \in DOMAIN outcomes : calls[c].id = outcomes[k].id
    /\ \A i \in DOMAIN calls : \A j \in DOMAIN calls :
          i < j =>
              /\ calls[i].id <= calls[j].id
              /\ calls[i].id = calls[j].id =>
                    (calls[i].call = "analysis" /\ calls[j].call = "fusion")

C24_Witness ==
    /\ pc = "reported"
    /\ Len(outcomes) = 2
    /\ Succeeded(1) /\ KeptSide(diff_blocks[1].resolution_suggestion) = "B"
    /\ Succeeded(2) /\ KeptSide(diff_blocks[2].resolution_suggestion) = ""
    /\ outcomes[2].fusion.kind = "raise"
    /\ calls = <<[id |-> 1, call |-> "analysis"], [id |-> 2, call |-> "analysis"],
                 [id |-> 2, call |-> "fusion"]>>

====
